---- MODULE Spec2Model ----
(***************************************************************************)
(* Model of resolve_overlaps.py: weighted interval scheduling over the     *)
(* regions of a gff file, per group (sequence id, type, strand), with the  *)
(* group cut into blocks that are solved one get_partial call at a time.   *)
(***************************************************************************)
EXTENDS Integers, Sequences, FiniteSets, TLC

\* ------------------------------------------------------------------ bounds
\* Largest coordinate of a region (coordinates are 1-based).
MaxCoord == 3
\* Largest weight of a region; the smallest is -1.
MaxWeight == 1
\* Largest number of regions handed to one stand-alone get_partial call.
MaxBlock == 3
\* Largest coordinate of a region of a stand-alone get_partial call.
MaxPoint == 2
\* Largest number of lines of an input file.
MaxLines == 3

\* line 9: the module-level flag; the program never sets it.
debug == FALSE

Coords == 1..MaxCoord
Weights == (-1)..MaxWeight
Intervals == {iv \in Coords \X Coords : iv[1] <= iv[2]}
Points == 1..MaxPoint

\* --------------------------------------------------------------- the lines
\* A line of the file, as the fields Region.__init__ reads after split():
\* parts[0], parts[2], parts[6] (tokens, here sequences of characters) and
\* parts[3], parts[4], parts[5] (the integers).
MkLine(sid, ty, sd, iv, w) ==
    [seqid |-> sid, type |-> ty, strand |-> sd,
     start |-> iv[1], finish |-> iv[2], weight |-> w]

\* The group the scheduling claims are exercised on: every interval, every weight.
MainLines == {MkLine(<<"a">>, <<"b", "c">>, <<"+">>, iv, w) : iv \in Intervals, w \in Weights}
\* The same group's lines on the shorter axis of a stand-alone call.
BlockLines ==
    {MkLine(<<"a">>, <<"b", "c">>, <<"+">>, iv, w) :
        iv \in {p \in Points \X Points : p[1] <= p[2]}, w \in Weights}
\* Two more (sequence id, type, strand) triples, on intervals that overlap the
\* main group's: "ab"/"c" concatenates to the main group's key, "a"/"c" does not.
SideLines ==
    {MkLine(k[1], k[2], <<"+">>, <<1, c>>, MaxWeight) :
        k \in {<< <<"a", "b">>, <<"c">> >>, << <<"a">>, <<"c">> >>}, c \in {1, MaxCoord}}
\* The lines resolve prints first (lines 129-130); both begin with '#'.
VersionLine == MkLine(<<"#", "#", "g">>, <<>>, <<>>, <<0, 0>>, 0)
DateLine == MkLine(<<"#", "#", "d">>, <<>>, <<>>, <<0, 0>>, 0)
Lines == MainLines \cup SideLines \cup {VersionLine}

\* line 115: an empty line or a line whose first character is '#'.
Skipped(line) == line.seqid = <<>> \/ line.seqid[1] = "#"

\* ------------------------------------------------------------ class Region
\* Region(line): id stands for the identity of the Python object (one per line read).
Region(line, id) ==
    [id |-> id, line |-> line,
     rid |-> line.seqid \o line.type \o line.strand,
     start |-> line.start, finish |-> line.finish, weight |-> line.weight]

Triple(r) == <<r.line.seqid, r.line.type, r.line.strand>>

\* ---------------------------------------------------------- class Sequence
Sequence(weight, finish, reg) == [weight |-> weight, finish |-> finish, regs |-> reg]

\* __add__ as it would be if it forgot the region's weight.
SeqAddNoWeight(s, region) == Sequence(s.weight, region.finish, Append(s.regs, region))
\* Sequence.__add__
SeqAdd(s, region) ==
    Sequence(s.weight + region.weight, region.finish, Append(s.regs, region))

\* Sequence.__gt__
SeqGt(a, b) == a.weight > b.weight

\* max as it would be if ties went to the second argument.
PyMaxLast(a, b) == IF SeqGt(a, b) THEN a ELSE b
\* max(a, b) of two Sequences: the first argument stays unless the second is greater.
PyMax(a, b) == IF SeqGt(b, a) THEN b ELSE a

\* most_far = max(region.finish, most_far), on integers
IntMax(a, b) == IF b > a THEN b ELSE a

\* ------------------------------------------------- list.sort and bisect_left
\* list.sort(key=attrgetter(key)): ascending, stable.
SortedBy(list, key) ==
    LET n == Len(list)
        Before(j, i) == \/ list[j][key] < list[i][key]
                        \/ list[j][key] = list[i][key] /\ j < i
        Pos(i) == Cardinality({j \in 1..n : Before(j, i)}) + 1
    IN [p \in 1..n |-> list[CHOOSE i \in 1..n : Pos(i) = p]]

RECURSIVE BisectRightFrom(_, _, _, _)
\* bisect.bisect_right's loop, for comparison.
BisectRightFrom(a, x, lo, hi) ==
    IF lo < hi
    THEN LET mid == (lo + hi) \div 2
         IN IF a[mid + 1] <= x THEN BisectRightFrom(a, x, mid + 1, hi)
                               ELSE BisectRightFrom(a, x, lo, mid)
    ELSE lo

RECURSIVE BisectLeftFrom(_, _, _, _)
\* bisect.bisect_left's loop; a is 0-based in Python, 1-based here.
BisectLeftFrom(a, x, lo, hi) ==
    IF lo < hi
    THEN LET mid == (lo + hi) \div 2
         IN IF a[mid + 1] < x THEN BisectLeftFrom(a, x, mid + 1, hi)
                              ELSE BisectLeftFrom(a, x, lo, mid)
    ELSE lo
\* bisect_left(a, x)
BisectLeft(a, x) == BisectLeftFrom(a, x, 0, Len(a))

\* ------------------------------------------------------ Resolver.get_partial
\* start = [f.start for f in routes]; finish = [f.finish for f in routes]
Starts(rs) == [k \in 1..Len(rs) |-> rs[k].start]
Finishes(rs) == [k \in 1..Len(rs) |-> rs[k].finish]

\* The initial conditions as they would be if the first region were left out.
InitialConditionsEmpty(rs) ==
    (0 :> Sequence(0, 0, <<>>)) @@ (1 :> Sequence(0, 0, <<>>))
\* lines 86-87: sequences[0] and sequences[1]; rs is routes after the sort.
InitialConditions(rs) ==
    (0 :> Sequence(0, 0, <<>>)) @@
    (1 :> Sequence(rs[1].weight, rs[1].finish, <<rs[1]>>))

\* The index if regions that end where region i starts were counted too.
PredecessorTouching(rs, i) == BisectRightFrom(Finishes(rs), Starts(rs)[i], 0, i - 1)
\* line 91: the index bisect_left returns for routes[i - 1] (rs[i] here).
Predecessor(rs, i) == BisectLeft(Finishes(rs), Starts(rs)[i])

\* lines 91-92: one pass of the loop body, for i in 2..len(routes).
BestStep(seqs, rs, i) ==
    LET new_seq == SeqAdd(seqs[Predecessor(rs, i)], rs[i])
    IN seqs @@ (i :> PyMax(seqs[i - 1], new_seq))

RECURSIVE FindBest(_, _, _)
\* lines 90-92: the loop from i on.
FindBest(seqs, rs, i) ==
    IF i > Len(rs) THEN seqs ELSE FindBest(BestStep(seqs, rs, i), rs, i + 1)

\* lines 94-100: the regions printed, and the count (only counted under debug).
Printed(seqs, rs) == seqs[Len(rs)].regs
Counted(seqs, rs) == IF debug THEN Len(seqs[Len(rs)].regs) ELSE 0

\* get_partial(routes) as one call, routes non-empty: what it prints and returns.
GetPartial(routes) ==
    LET rs == SortedBy(routes, "finish")
        seqs == FindBest(InitialConditions(rs), rs, 2)
    IN [weight |-> seqs[Len(rs)].weight, count |-> Counted(seqs, rs),
        printed |-> Printed(seqs, rs)]

\* -------------------------------------------------------------------- state
VARIABLES
    input,      \* the lines of the input file, each a whole line with its newline
    is_sorted,  \* Resolver.is_sorted
    pc,         \* where resolve is: "start", "group", "scan", "ended", "done" ("off": no run)
    data,       \* read_input's defaultdict: rid -> list of Regions
    rids,       \* data.keys(), in insertion order
    gi,         \* position of the current rid in rids
    ri,         \* position of the next region of data[rid]
    block,      \* resolve's list named sequences: the regions of the open block
    top_weight, most_far, count,
    calls,      \* the lists passed to get_partial for the current rid, in order
    selected,   \* the regions get_partial printed for the current rid, in order
    out,        \* the lines printed so far
    run,        \* 1: the first run; 2: the run on the first run's output
    first_out,  \* what the first run printed
    first_ok,   \* the first run's group lists were sorted by start
    routes, start, finish, sequences,   \* get_partial's locals
    i,          \* the last value of the loop variable i (1 before the loop)
    pidx,       \* the index bisect_left returned in the last pass
    gp_pc,      \* where a stand-alone get_partial call is ("idle": none)
    ret         \* what get_partial returned and printed

rvars == <<input, is_sorted, pc, data, rids, gi, ri, block, top_weight, most_far,
           count, calls, selected, out, run, first_out, first_ok>>
gvars == <<routes, start, finish, sequences, i, pidx, gp_pc, ret>>
vars == <<rvars, gvars>>

NoRet == [weight |-> 0, count |-> 0, printed |-> <<>>]

\* ----------------------------------------------- get_partial, pass by pass
GPIdle ==
    /\ routes = <<>> /\ start = <<>> /\ finish = <<>>
    /\ sequences = <<>> /\ i = 0 /\ pidx = 0 /\ gp_pc = "idle" /\ ret = NoRet

ResolverOff ==
    /\ input = <<>> /\ is_sorted = FALSE /\ pc = "off" /\ data = <<>> /\ rids = <<>>
    /\ gi = 0 /\ ri = 0 /\ block = <<>> /\ top_weight = 0 /\ most_far = 0 /\ count = 0
    /\ calls = <<>> /\ selected = <<>> /\ out = <<>> /\ run = 0
    /\ first_out = <<>> /\ first_ok = FALSE

\* The lists of n regions a stand-alone call gets.
Blocks(n) == [1..n -> BlockLines]

InitGP ==
    /\ ResolverOff
    /\ \E n \in 1..MaxBlock :
          \E ls \in Blocks(n) : routes = [k \in 1..n |-> Region(ls[k], k)]
    /\ start = <<>> /\ finish = <<>> /\ sequences = <<>>
    /\ i = 0 /\ pidx = 0 /\ gp_pc = "call" /\ ret = NoRet

\* lines 77-87: sort, extract the points, set the initial conditions.
GPEnter ==
    /\ gp_pc = "call"
    /\ LET rs == SortedBy(routes, "finish")
       IN /\ routes' = rs
          /\ start' = Starts(rs)
          /\ finish' = Finishes(rs)
          /\ sequences' = InitialConditions(rs)
    /\ i' = 1
    /\ gp_pc' = "loop"
    /\ UNCHANGED <<pidx, ret, rvars>>

\* lines 90-92: one pass of the loop.
GPStep ==
    /\ gp_pc = "loop"
    /\ i < Len(routes)
    /\ i' = i + 1
    /\ pidx' = Predecessor(routes, i + 1)
    /\ sequences' = BestStep(sequences, routes, i + 1)
    /\ UNCHANGED <<routes, start, finish, gp_pc, ret, rvars>>

\* lines 94-103: print the best sequence, return its weight.
GPReturn ==
    /\ gp_pc = "loop"
    /\ i = Len(routes)
    /\ ret' = [weight |-> sequences[Len(routes)].weight,
               count |-> Counted(sequences, routes),
               printed |-> Printed(sequences, routes)]
    /\ gp_pc' = "done"
    /\ UNCHANGED <<routes, start, finish, sequences, i, pidx, rvars>>

NextGP == GPEnter \/ GPStep \/ GPReturn

SpecGP == InitGP /\ [][NextGP]_vars

\* ------------------------------------------------------ Resolver.read_input
\* line 120: data[f.rid].append(f) on the defaultdict and its key order.
AppendRegion(d, f) ==
    IF f.rid \in DOMAIN d.data
    THEN [data |-> [d.data EXCEPT ![f.rid] = Append(@, f)], rids |-> d.rids]
    ELSE [data |-> d.data @@ (f.rid :> <<f>>), rids |-> Append(d.rids, f.rid)]

RECURSIVE ReadFrom(_, _, _)
\* lines 113-120: the loop over the lines of the file, from line k on.
ReadFrom(file, k, d) ==
    IF k > Len(file) THEN d
    ELSE IF Skipped(file[k]) THEN ReadFrom(file, k + 1, d)
    ELSE ReadFrom(file, k + 1, AppendRegion(d, Region(file[k], k)))

\* read_input(): the dictionary, with its keys in insertion order.
ReadInput(file) == ReadFrom(file, 1, [data |-> <<>>, rids |-> <<>>])

\* ---------------------------------------------------------- Resolver.resolve
\* The files of n lines.
Files(n) == [1..n -> Lines]

Init ==
    /\ GPIdle
    /\ \E n \in 0..MaxLines : input \in Files(n)
    /\ is_sorted \in BOOLEAN
    /\ pc = "start"
    /\ data = <<>> /\ rids = <<>> /\ gi = 0 /\ ri = 0
    /\ block = <<>> /\ top_weight = 0 /\ most_far = 0 /\ count = 0
    /\ calls = <<>> /\ selected = <<>> /\ out = <<>>
    /\ run = 1 /\ first_out = <<>> /\ first_ok = FALSE

IsSortedBy(list, key) ==
    \A k \in 1..(Len(list) - 1) : list[k][key] <= list[k + 1][key]

\* The group lists read_input builds from the file are sorted by start.
InputSorted(file) ==
    LET d == ReadInput(file).data
    IN \A rid \in DOMAIN d : IsSortedBy(d[rid], "start")

\* The lines of the regions get_partial prints (line 97), or none under debug.
PrintLines(regs) == IF debug THEN <<>> ELSE [k \in 1..Len(regs) |-> regs[k].line]

\* lines 128-132: print the header, read the file.
Start ==
    /\ pc = "start"
    /\ out' = IF debug THEN <<>> ELSE <<VersionLine, DateLine>>
    /\ LET d == ReadInput(input)
       IN /\ data' = d.data
          /\ rids' = d.rids
          /\ pc' = IF d.rids = <<>> THEN "done" ELSE "group"
    /\ gi' = 1
    /\ UNCHANGED <<input, is_sorted, ri, block, top_weight, most_far, count, calls,
                   selected, run, first_out, first_ok, gvars>>

\* lines 134-146: the next rid; its holders are reset and its list sorted.
BeginGroup ==
    /\ pc = "group"
    /\ block' = <<>>
    /\ top_weight' = 0
    /\ most_far' = 0
    /\ count' = 0
    /\ calls' = <<>>
    /\ selected' = <<>>
    /\ data' = IF ~is_sorted
               THEN [data EXCEPT ![rids[gi]] = SortedBy(@, "start")]
               ELSE data
    /\ ri' = 1
    /\ pc' = "scan"
    /\ UNCHANGED <<input, is_sorted, rids, gi, out, run, first_out, first_ok, gvars>>

\* The boundary test as it would be without the comparison with most_far.
SplitsAlways(region, holder, far) == Len(holder) > 0
\* line 149: the open block is closed before this region.
Splits(region, holder, far) == Len(holder) > 0 /\ region.start > far

\* lines 148-156: one pass of the loop over data[rid].
ScanRegion ==
    /\ pc = "scan"
    /\ ri <= Len(data[rids[gi]])
    /\ LET region == data[rids[gi]][ri]
       IN /\ IF Splits(region, block, most_far)
             THEN LET r == GetPartial(block)
                  IN /\ top_weight' = top_weight + r.weight
                     /\ count' = count + r.count
                     /\ calls' = Append(calls, block)
                     /\ selected' = selected \o r.printed
                     /\ out' = out \o PrintLines(r.printed)
                     /\ block' = <<region>>
             ELSE /\ block' = Append(block, region)
                  /\ UNCHANGED <<top_weight, count, calls, selected, out>>
          /\ most_far' = IntMax(region.finish, most_far)
    /\ ri' = ri + 1
    /\ UNCHANGED <<input, is_sorted, pc, data, rids, gi, run, first_out, first_ok, gvars>>

\* lines 158-165: the last block of the rid, then the next rid or the end.
EndGroup ==
    /\ pc = "scan"
    /\ ri > Len(data[rids[gi]])
    /\ LET r == GetPartial(block)
       IN /\ top_weight' = top_weight + r.weight
          /\ count' = count + r.count
          /\ calls' = Append(calls, block)
          /\ selected' = selected \o r.printed
          /\ out' = out \o PrintLines(r.printed)
    /\ pc' = "ended"
    /\ UNCHANGED <<input, is_sorted, data, rids, gi, ri, block, most_far, run,
                   first_out, first_ok, gvars>>

\* line 134: the loop over data.keys() goes on, or resolve returns.
NextGroup ==
    /\ pc = "ended"
    /\ gi' = gi + 1
    /\ pc' = IF gi < Len(rids) THEN "group" ELSE "done"
    /\ UNCHANGED <<input, is_sorted, data, rids, ri, block, top_weight, most_far,
                   count, calls, selected, out, run, first_out, first_ok, gvars>>

\* lines 168-175: the program is run again, on the file the first run printed.
Rerun ==
    /\ pc = "done"
    /\ run = 1
    /\ input' = out
    /\ first_out' = out
    /\ first_ok' = (~is_sorted \/ InputSorted(input))
    /\ run' = 2
    /\ pc' = "start"
    /\ data' = <<>> /\ rids' = <<>> /\ gi' = 0 /\ ri' = 0
    /\ block' = <<>> /\ top_weight' = 0 /\ most_far' = 0 /\ count' = 0
    /\ calls' = <<>> /\ selected' = <<>> /\ out' = <<>>
    /\ UNCHANGED <<is_sorted, gvars>>

Next == Start \/ BeginGroup \/ ScanRegion \/ EndGroup \/ NextGroup \/ Rerun

Spec == Init /\ [][Next]_vars

\* ================================================================== claims
RECURSIVE SumWeights(_)
\* The sum of the weights of a list of regions.
SumWeights(regs) ==
    IF regs = <<>> THEN 0 ELSE regs[1].weight + SumWeights(Tail(regs))

\* Two regions do not overlap, as the claims state it.
Apart(a, b) == a.finish <= b.start \/ b.finish <= a.start
\* Two regions do not overlap, no shared end point either.
StrictlyApart(a, b) == a.finish < b.start \/ b.finish < a.start

\* The subsets of the positions of rs whose regions are pairwise apart.
ApartSubsets(rs) ==
    {S \in SUBSET (1..Len(rs)) : \A a, b \in S : a # b => Apart(rs[a], rs[b])}
\* The list of the regions of rs at the positions in S.
Pick(rs, S) == SelectSeq([k \in 1..Len(rs) |-> IF k \in S THEN <<rs[k]>> ELSE <<>>],
                         LAMBDA x : x # <<>>)
SubsetWeight(rs, S) ==
    LET picked == Pick(rs, S)
    IN SumWeights([k \in 1..Len(picked) |-> picked[k][1]])
\* The largest total weight of a subset of rs whose members are pairwise apart.
BruteForceMax(rs) ==
    LET ws == {SubsetWeight(rs, S) : S \in ApartSubsets(rs)}
    IN CHOOSE w \in ws : \A v \in ws : v <= w

\* C1: the weight get_partial returns is the largest total weight of a subset of
\* the block (the empty one included) whose members are pairwise apart.
C1_Optimal == gp_pc = "done" => ret.weight = BruteForceMax(routes)

\* C4: a block of one region of negative weight gives weight 0 and prints nothing.
C4_NegativeSingleExcluded ==
    (gp_pc = "done" /\ Len(routes) = 1 /\ routes[1].weight < 0)
        => (ret.weight = 0 /\ ret.printed = <<>>)

\* C6: every entry of the table has the weight of the regions it holds, and the
\* weight returned is the sum of the weights of the regions printed.
C6_WeightIsSum ==
    /\ \A k \in DOMAIN sequences : sequences[k].weight = SumWeights(sequences[k].regs)
    /\ gp_pc = "done" => ret.weight = SumWeights(ret.printed)
C6_Witness ==
    /\ gp_pc = "done"
    /\ Len(ret.printed) = 2
    /\ ret.weight = 2
    /\ sequences[1].weight = -1

C9_TieKeepsEarlier ==
    \A k \in 2..i :
        LET cand == SeqAdd(sequences[Predecessor(routes, k)], routes[k])
        IN /\ cand.weight = sequences[k - 1].weight => sequences[k] = sequences[k - 1]
           /\ sequences[k] # sequences[k - 1]
                => (cand.weight > sequences[k - 1].weight /\ sequences[k] = cand)
           /\ sequences[k] \in {sequences[k - 1], cand}
C9_Witness ==
    /\ gp_pc = "loop"
    /\ i = 2
    /\ sequences[1].weight = 1
    /\ SeqAdd(sequences[pidx], routes[2]).weight = 1
    /\ sequences[2] = sequences[1]

\* The rid Region.__init__ gives a printed line.
LineRid(line) == Region(line, 0).rid
\* The group lists were sorted by start when the blocks were cut.
SortedWhenCut == ~is_sorted \/ InputSorted(input)

\* C2: two different regions printed for the same rid are apart, whether they
\* come from one block or from two, when the group lists were sorted by start.
C2_NoOverlap ==
    SortedWhenCut =>
        \A a, b \in 1..Len(out) :
            (a < b /\ ~Skipped(out[a]) /\ ~Skipped(out[b])
                   /\ LineRid(out[a]) = LineRid(out[b]))
                => Apart(out[a], out[b])
C2_Witness ==
    /\ SortedWhenCut
    /\ pc = "ended"
    /\ Len(calls) = 1
    /\ Len(selected) = 2

\* C3: for a group sorted by start, the blocks solved one by one give the total
\* weight and the set of regions that one get_partial call on the whole group gives.
C3_BlocksEqualWhole ==
    (pc = "ended" /\ IsSortedBy(data[rids[gi]], "start"))
        => LET whole == GetPartial(data[rids[gi]])
           IN /\ top_weight = whole.weight
              /\ {selected[k] : k \in 1..Len(selected)}
                    = {whole.printed[k] : k \in 1..Len(whole.printed)}

\* C5: two regions in one group list have the same (sequence id, type, strand).
\* nor do two regions in one list passed to get_partial differ in it.
C5_GroupIsolation ==
    /\ \A rid \in DOMAIN data :
          \A a, b \in 1..Len(data[rid]) : Triple(data[rid][a]) = Triple(data[rid][b])
    /\ \A c \in 1..Len(calls) :
          \A a, b \in 1..Len(calls[c]) : Triple(calls[c][a]) = Triple(calls[c][b])

RECURSIVE Flatten(_)
\* The lists of a list of lists, one after the other.
Flatten(lists) == IF lists = <<>> THEN <<>> ELSE lists[1] \o Flatten(Tail(lists))

\* The largest finish of the first n regions of a list (0 for none, as most_far).
FarthestOf(list, n) ==
    IF n = 0 THEN 0
    ELSE CHOOSE f \in {list[k].finish : k \in 1..n} :
            \A k \in 1..n : list[k].finish <= f

\* The positions of the group list at which a call's list begins.
CallStarts ==
    {Len(Flatten(SubSeq(calls, 1, c - 1))) + 1 : c \in 1..Len(calls)}

\* C10: for a group sorted by start, the lists passed to get_partial are non-empty
\* consecutive runs that partition the group; a run begins exactly at a region
\* whose start is greater than most_far, the largest finish of the regions before
\* it; no region of a later run overlaps one of an earlier run.
C10_BlockSplitting ==
    (pc \in {"scan", "ended"} /\ IsSortedBy(data[rids[gi]], "start"))
        => LET group == data[rids[gi]]
           IN /\ \A c \in 1..Len(calls) : calls[c] # <<>>
              /\ most_far = FarthestOf(group, ri - 1)
              /\ pc = "scan" => Flatten(calls) \o block = SubSeq(group, 1, ri - 1)
              /\ pc = "ended" =>
                    /\ Flatten(calls) = group
                    /\ \A k \in 1..Len(group) :
                          k \in CallStarts <=> group[k].start > FarthestOf(group, k - 1)
              /\ \A c, d \in 1..Len(calls) :
                    c < d => \A a \in 1..Len(calls[c]), b \in 1..Len(calls[d]) :
                                /\ Apart(calls[c][a], calls[d][b])
                                /\ StrictlyApart(calls[c][a], calls[d][b])
C10_Witness ==
    /\ pc = "ended"
    /\ IsSortedBy(data[rids[gi]], "start")
    /\ Len(calls) = 2
    /\ Len(calls[1]) = 2
    /\ calls[1][1].finish > calls[1][2].finish

====
